---- MODULE Spec2Model ----
(***************************************************************************)
(* A model of package brimtext: the word wrapper (Wrap / wrap) and the     *)
(* table formatter (Align).                                                *)
(*                                                                         *)
(* A Go string or []byte is modelled as a sequence of codepoints, each     *)
(* codepoint a short TLA+ string naming it; UTF8Len gives the number of    *)
(* bytes a codepoint takes, so that len() (bytes) and                      *)
(* utf8.RuneCountInString() (codepoints) are different operators.  All     *)
(* modelled strings are valid UTF-8.                                       *)
(***************************************************************************)
EXTENDS Integers, Sequences, FiniteSets, TLC

----------------------------------------------------------------------------
(* Codepoints *)

SP == " "
LF == "LF"
CR == "CR"
ESC == "ESC"
EAcute == "U+00E9"

\* Bytes of the UTF-8 encoding of one codepoint.
UTF8Len(ch) == IF ch = EAcute THEN 2 ELSE 1

----------------------------------------------------------------------------
(* Go's string and bytes primitives *)

RECURSIVE ByteLen(_)
\* len(s): the number of bytes.
ByteLen(s) == IF s = <<>> THEN 0 ELSE UTF8Len(Head(s)) + ByteLen(Tail(s))

\* utf8.RuneCountInString(s): the number of codepoints.
RuneCountInString(s) == Len(s)

RECURSIVE Concat(_)
\* The concatenation of a sequence of strings.
Concat(ss) == IF ss = <<>> THEN <<>> ELSE Head(ss) \o Concat(Tail(ss))

\* s[n:] for a byte offset n that falls on a codepoint boundary.
RECURSIVE SliceFrom(_, _)
SliceFrom(s, n) ==
    IF n <= 0 \/ s = <<>> THEN s ELSE SliceFrom(Tail(s), n - UTF8Len(Head(s)))

\* bytes.IndexByte(s, ch): the byte offset of the first ch in s, or -1.
IndexByte(s, ch) ==
    IF \E k \in 1..Len(s) : s[k] = ch
    THEN LET k == CHOOSE k \in 1..Len(s) :
                      s[k] = ch /\ \A l \in 1..(k - 1) : s[l] # ch
         IN  ByteLen(SubSeq(s, 1, k - 1))
    ELSE -1

\* The codepoints of s.
Range(s) == {s[k] : k \in 1..Len(s)}

HasPrefix(s, p) == Len(s) >= Len(p) /\ SubSeq(s, 1, Len(p)) = p

RECURSIVE Replace(_, _, _)
\* bytes.Replace(s, old, new, -1) / strings.Replace(s, old, new, -1) with a
\* non-empty old: non-overlapping occurrences, left to right.
Replace(s, old, new) ==
    IF s = <<>> THEN <<>>
    ELSE IF HasPrefix(s, old)
         THEN new \o Replace(SubSeq(s, Len(old) + 1, Len(s)), old, new)
         ELSE <<Head(s)>> \o Replace(Tail(s), old, new)

RECURSIVE SplitAcc(_, _, _)
SplitAcc(s, sep, cur) ==
    IF Len(s) < Len(sep) THEN <<cur \o s>>
    ELSE IF HasPrefix(s, sep)
         THEN <<cur>> \o SplitAcc(SubSeq(s, Len(sep) + 1, Len(s)), sep, <<>>)
         ELSE SplitAcc(Tail(s), sep, Append(cur, Head(s)))

\* bytes.Split(s, sep) / strings.Split(s, sep) with a non-empty sep.
Split(s, sep) == SplitAcc(s, sep, <<>>)

RECURSIVE TrimLeft(_, _)
TrimLeft(s, ch) == IF s # <<>> /\ Head(s) = ch THEN TrimLeft(Tail(s), ch) ELSE s

RECURSIVE TrimRight(_, _)
TrimRight(s, ch) ==
    IF s # <<>> /\ s[Len(s)] = ch THEN TrimRight(SubSeq(s, 1, Len(s) - 1), ch) ELSE s

\* bytes.Trim(s, cutset) for a cutset of the one byte ch.
Trim(s, ch) == TrimRight(TrimLeft(s, ch), ch)

----------------------------------------------------------------------------
(* ThousandsSep and ThousandsSepU *)

\* The codepoint of the decimal digit d.
Digit(d) == <<"0", "1", "2", "3", "4", "5", "6", "7", "8", "9">>[d + 1]

RECURSIVE FormatUint(_)
\* strconv.FormatUint(u, 10)
FormatUint(u) ==
    IF u < 10 THEN <<Digit(u)>> ELSE Append(FormatUint(u \div 10), Digit(u % 10))

\* strconv.FormatInt(v, 10)
FormatInt(v) == IF v < 0 THEN <<"-">> \o FormatUint(-v) ELSE FormatUint(v)

\* s[:i] + "," + s[i:]
InsertComma(s, i) == SubSeq(s, 1, i) \o <<",">> \o SliceFrom(s, i)

----------------------------------------------------------------------------
(* wrap: the body of the per-word loop as operators on the loop's locals *)

\* The test of the escape-scan loop: it goes on while more than one byte is
\* left and an ESC byte is found.
ScanContinues(scan) == ByteLen(scan) > 1 /\ IndexByte(scan, ESC) # -1

\* One iteration of the escape-scan loop on <<scan, wordLen>>.  i is declared
\* inside the loop, so the i++ of the branch without an 'm' changes nothing
\* the next iteration reads.
ScanIter(scan, wordLen) ==
    LET i == IndexByte(scan, ESC)
        j == IndexByte(SliceFrom(scan, i + 1), "m")
    IN  IF j = -1
        THEN [scan |-> scan, wordLen |-> wordLen]
        ELSE [scan |-> SliceFrom(scan, i + j + 2), wordLen |-> wordLen - (j + 2)]

\* The iteration leaves the loop's state as it found it: the loop never ends.
ScanStuck(scan, wordLen) ==
    ScanContinues(scan) /\ ScanIter(scan, wordLen).scan = scan

RECURSIVE ScanLoop(_, _)
\* The escape-scan loop run to its end: the visible length of the word, or
\* hang when the loop never ends.
ScanLoop(scan, wordLen) ==
    IF ~ScanContinues(scan) THEN [hang |-> FALSE, wordLen |-> wordLen]
    ELSE IF ScanStuck(scan, wordLen) THEN [hang |-> TRUE, wordLen |-> wordLen]
    ELSE LET n == ScanIter(scan, wordLen) IN ScanLoop(n.scan, n.wordLen)

\* PlaceWord with the comparison off by one: a word that fills the line
\* exactly is sent to the next line.
PlaceWordOffByOne(st, word, wordLen, width, indent1, indent2) ==
    IF st.start
    THEN [out |-> st.out \o indent1 \o word,
          lineLen |-> st.lineLen + ByteLen(indent1) + wordLen,
          start |-> FALSE]
    ELSE IF st.lineLen + 1 + wordLen >= width
    THEN [out |-> st.out \o <<LF>> \o indent2 \o word,
          lineLen |-> ByteLen(indent2) + wordLen,
          start |-> FALSE]
    ELSE [out |-> st.out \o <<SP>> \o word,
          lineLen |-> st.lineLen + 1 + wordLen,
          start |-> FALSE]

\* The three-way placement of a word on <<out, lineLen, start>>.
PlaceWord(st, word, wordLen, width, indent1, indent2) ==
    IF st.start
    THEN [out |-> st.out \o indent1 \o word,
          lineLen |-> st.lineLen + ByteLen(indent1) + wordLen,
          start |-> FALSE]
    ELSE IF st.lineLen + 1 + wordLen > width
    THEN [out |-> st.out \o <<LF>> \o indent2 \o word,
          lineLen |-> ByteLen(indent2) + wordLen,
          start |-> FALSE]
    ELSE [out |-> st.out \o <<SP>> \o word,
          lineLen |-> st.lineLen + 1 + wordLen,
          start |-> FALSE]

\* The words of one paragraph, as the loop ranges over them.
ParWords(par) == Split(Replace(par, <<LF>>, <<SP>>), <<SP>>)

\* The paragraphs of a non-empty text, as the outer loop ranges over them.
Paragraphs(text) == Split(Replace(text, <<CR, LF>>, <<LF>>), <<LF, LF>>)

RECURSIVE WrapWords(_, _, _, _, _)
\* The word loop of one paragraph run to its end, from placement state st.
WrapWords(words, st, width, indent1, indent2) ==
    IF words = <<>> THEN [hang |-> FALSE, st |-> st]
    ELSE LET word == Head(words)
         IN  IF ByteLen(word) = 0
             THEN WrapWords(Tail(words), st, width, indent1, indent2)
             ELSE LET r == ScanLoop(word, ByteLen(word))
                  IN  IF r.hang THEN [hang |-> TRUE, st |-> st]
                      ELSE WrapWords(Tail(words),
                                     PlaceWord(st, word, r.wordLen, width, indent1, indent2),
                                     width, indent1, indent2)

RECURSIVE WrapPars(_, _, _, _, _)
\* The paragraph loop run to its end, from output out.
WrapPars(pars, out, width, indent1, indent2) ==
    IF pars = <<>> THEN [hang |-> FALSE, out |-> out]
    ELSE LET r == WrapWords(ParWords(Head(pars)),
                            [out |-> out, lineLen |-> 0, start |-> TRUE],
                            width, indent1, indent2)
         IN  IF r.hang THEN [hang |-> TRUE, out |-> out]
             ELSE WrapPars(Tail(pars), r.st.out \o <<LF, LF>>, width, indent1, indent2)

\* wrap(text, width, indent1, indent2)
wrap(text, width, indent1, indent2) ==
    IF ByteLen(text) = 0 THEN [hang |-> FALSE, out |-> text]
    ELSE WrapPars(Paragraphs(text), <<>>, width, indent1, indent2)

\* What GetTTYWidth returns when the query of the terminal's size fails.
TTYFallback == 80

\* GetTTYWidth(): the columns the terminal reports, or the fallback when the
\* query fails.
GetTTYWidth(err, cols) == IF err THEN TTYFallback ELSE cols

\* EffectiveWidth without the column kept free: the terminal's width plus
\* the width.
EffectiveWidthFullTerminal(width, ttyWidth) ==
    IF width < 1 THEN ttyWidth + width ELSE width

\* The width wrap is called with: a width below 1 is relative to the
\* terminal's.
EffectiveWidth(width, ttyWidth) == IF width < 1 THEN ttyWidth - 1 + width ELSE width

\* Wrap(text, width, indent1, indent2) for a terminal of width ttyWidth.
Wrap(text, width, indent1, indent2, ttyWidth) ==
    LET r == wrap(text, EffectiveWidth(width, ttyWidth), indent1, indent2)
    IN  [hang |-> r.hang, out |-> Trim(r.out, LF)]

----------------------------------------------------------------------------
(* Align: options *)

Left == 0
Right == 1
Center == 2

\* The glyph fields of AlignOptions.
GlyphFields ==
    {"FirstDR", "FirstLR", "FirstFirstDLR", "FirstDLR", "FirstDL",
     "RowFirstUD", "RowSecondUD", "RowUD", "RowLastUD",
     "FirstNilFirstUDR", "FirstNilLR", "FirstNilFirstUDLR", "FirstNilUDLR",
     "FirstNilLastUDL",
     "NilFirstUDR", "NilLR", "NilFirstUDLR", "NilUDLR", "NilLastUDL",
     "LastUR", "LastLR", "LastFirstULR", "LastULR", "LastUL"}

\* The zero value of AlignOptions; isNil tells a nil *AlignOptions.
ZeroAlignOptions ==
    [f \in GlyphFields |-> <<>>] @@
    [isNil |-> FALSE, Widths |-> <<>>, Alignments |-> <<>>,
     LeaveTrailingWhitespace |-> FALSE, NilBetweenEveryRow |-> FALSE]

NilAlignOptions == [ZeroAlignOptions EXCEPT !.isNil = TRUE]

\* NewDefaultAlignOptions()
NewDefaultAlignOptions ==
    [ZeroAlignOptions EXCEPT !.RowSecondUD = <<SP>>, !.RowUD = <<SP>>]

\* NewSimpleAlignOptions()
NewSimpleAlignOptions ==
    [ZeroAlignOptions EXCEPT
        !.FirstDR = <<"+", "-">>,
        !.FirstLR = <<"-">>,
        !.FirstFirstDLR = <<"-", "+", "-">>,
        !.FirstDLR = <<"-", "+", "-">>,
        !.FirstDL = <<"-", "+">>,
        !.RowFirstUD = <<"|", SP>>,
        !.RowSecondUD = <<SP, "|", SP>>,
        !.RowUD = <<SP, "|", SP>>,
        !.RowLastUD = <<SP, "|">>,
        !.LeaveTrailingWhitespace = TRUE,
        !.FirstNilFirstUDR = <<"+", "-">>,
        !.FirstNilLR = <<"-">>,
        !.FirstNilFirstUDLR = <<"-", "+", "-">>,
        !.FirstNilUDLR = <<"-", "+", "-">>,
        !.FirstNilLastUDL = <<"-", "+">>,
        !.LastUR = <<"+", "-">>,
        !.LastLR = <<"-">>,
        !.LastFirstULR = <<"-", "+", "-">>,
        !.LastULR = <<"-", "+", "-">>,
        !.LastUL = <<"-", "+">>]

\* AllEqual("", v1, ..., vn) for the strings vs.
AllEqual(vs) == \A k \in 1..Len(vs) : vs[k] = <<>>

----------------------------------------------------------------------------
(* Align: rows.  A row of the grid is nil or a slice of cells. *)

NilRow == [nil |-> TRUE, cells |-> <<>>]
Row(cells) == [nil |-> FALSE, cells |-> cells]

\* The row with the cells of the columns that have a positive width
\* rewrapped; hang when Wrap does not return for one of them.
WrapCells(cells, Widths, tty) ==
    LET wrapped == [col \in 1..Len(cells) |->
                       IF col > Len(Widths) \/ Widths[col] <= 0
                       THEN [hang |-> FALSE, out |-> cells[col]]
                       ELSE Wrap(cells[col], Widths[col], <<>>, <<>>, tty)]
    IN  [hang |-> \E col \in 1..Len(cells) : wrapped[col].hang,
         cells |-> [col \in 1..Len(cells) |-> wrapped[col].out]]

\* The largest of the numbers ns, from 0.
MaxOf(ns) ==
    IF ns = {} THEN 0 ELSE CHOOSE n \in ns : \A o \in ns : o <= n

\* SplitCells filling a cell that has run out of lines with its last line
\* again instead of the empty string.
SplitCellsRepeating(cells) ==
    LET work == [col \in 1..Len(cells) |->
                    Split(Replace(cells[col], <<CR, LF>>, <<LF>>), <<LF>>)]
        maxCells == MaxOf({Len(work[col]) : col \in 1..Len(cells)})
    IN  [c \in 1..maxCells |->
            Row([col \in 1..Len(work) |->
                    IF c <= Len(work[col]) THEN work[col][c]
                    ELSE work[col][Len(work[col])]])]

\* The rows one slice of cells is expanded into: each cell split on line
\* breaks, one row per line of the cell with the most lines, the shorter
\* cells filled up with empty strings.
SplitCells(cells) ==
    LET work == [col \in 1..Len(cells) |->
                    Split(Replace(cells[col], <<CR, LF>>, <<LF>>), <<LF>>)]
        maxCells == MaxOf({Len(work[col]) : col \in 1..Len(cells)})
    IN  [c \in 1..maxCells |->
            Row([col \in 1..Len(work) |->
                    IF c <= Len(work[col]) THEN work[col][c] ELSE <<>>])]

\* One iteration of the loop that builds newData, for the input row row.
ExpandRow(newData, row, o, tty) ==
    IF row.nil
    THEN [hang |-> FALSE,
          newData |-> IF ~o.NilBetweenEveryRow THEN Append(newData, NilRow) ELSE newData]
    ELSE LET w == WrapCells(row.cells, o.Widths, tty)
         IN  [hang |-> w.hang,
              newData |->
                  (IF o.NilBetweenEveryRow /\ Len(newData) # 0
                   THEN Append(newData, NilRow) ELSE newData)
                  \o SplitCells(w.cells)]

\* One iteration of the loop over the rows that computes widths: a column
\* the row is the first to reach starts at the byte length of the row's cell,
\* and every column of the row is raised to the cell's codepoint count.
WidenFor(ws, row) ==
    IF row.nil THEN ws
    ELSE LET grown == ws \o [k \in 1..(Len(row.cells) - Len(ws)) |->
                               ByteLen(row.cells[Len(ws) + k])]
         IN  [c \in 1..Len(grown) |->
                 IF c <= Len(row.cells) /\ RuneCountInString(row.cells[c]) > grown[c]
                 THEN RuneCountInString(row.cells[c])
                 ELSE grown[c]]

RECURSIVE ColumnWidths(_, _)
\* The loop that computes widths, over rows, from ws.
ColumnWidths(rows, ws) ==
    IF rows = <<>> THEN ws ELSE ColumnWidths(Tail(rows), WidenFor(ws, Head(rows)))

\* opts.Alignments made as long as widths with Left.
FillAlignments(as, ws) ==
    IF Len(as) < Len(ws)
    THEN as \o [k \in 1..(Len(ws) - Len(as)) |-> Left]
    ELSE as

\* n copies of the string g.
Repeat(g, n) == Concat([k \in 1..n |-> g])

\* What one border site writes before its line break: the left glyph, for
\* every column its junction (none for the first column, first for the
\* second, other for the later ones) and width copies of fill, then the right
\* glyph.
BorderLine(left, first, other, fill, right, ws) ==
    left
    \o Concat([col \in 1..Len(ws) |->
                  (IF col = 2 THEN first ELSE IF col # 1 THEN other ELSE <<>>)
                  \o Repeat(fill, ws[col])])
    \o right

\* The top border, with its line break, or nothing.
TopBorder(o, ws) ==
    IF ~AllEqual(<<o.FirstDR, o.FirstFirstDLR, o.FirstDLR, o.FirstLR, o.FirstDL>>)
    THEN BorderLine(o.FirstDR, o.FirstFirstDLR, o.FirstDLR, o.FirstLR, o.FirstDL, ws)
             \o <<LF>>
    ELSE <<>>

\* NilRowLine passing over FirstNil glyphs that are all empty: the first nil
\* row is then written with the Nil glyphs.
NilRowLineSkippingEmptyFirst(o, ws, firstNil) ==
    (IF firstNil /\ ~AllEqual(<<o.FirstNilFirstUDR, o.FirstNilFirstUDLR, o.FirstNilUDLR,
                               o.FirstNilLR, o.FirstNilLastUDL>>)
     THEN BorderLine(o.FirstNilFirstUDR, o.FirstNilFirstUDLR, o.FirstNilUDLR,
                     o.FirstNilLR, o.FirstNilLastUDL, ws)
     ELSE IF ~AllEqual(<<o.NilFirstUDR, o.NilFirstUDLR, o.NilUDLR, o.NilLR,
                         o.NilLastUDL>>)
          THEN BorderLine(o.NilFirstUDR, o.NilFirstUDLR, o.NilUDLR, o.NilLR,
                          o.NilLastUDL, ws)
          ELSE <<>>)
    \o <<LF>>

\* What a nil row writes: the first one the FirstNil glyphs, a later one the
\* Nil glyphs, each only if one of its five is not empty; then a line break.
NilRowLine(o, ws, firstNil) ==
    (IF firstNil
     THEN IF ~AllEqual(<<o.FirstNilFirstUDR, o.FirstNilFirstUDLR, o.FirstNilUDLR,
                         o.FirstNilLR, o.FirstNilLastUDL>>)
          THEN BorderLine(o.FirstNilFirstUDR, o.FirstNilFirstUDLR, o.FirstNilUDLR,
                          o.FirstNilLR, o.FirstNilLastUDL, ws)
          ELSE <<>>
     ELSE IF ~AllEqual(<<o.NilFirstUDR, o.NilFirstUDLR, o.NilUDLR, o.NilLR,
                         o.NilLastUDL>>)
          THEN BorderLine(o.NilFirstUDR, o.NilFirstUDLR, o.NilUDLR, o.NilLR,
                          o.NilLastUDL, ws)
          ELSE <<>>)
    \o <<LF>>

\* CellText with the odd space of a centred cell put on the left.
CellTextCenterRoundUp(v, c, n, o, ws, as) ==
    LET d == ws[c] - RuneCountInString(v)
        trailing == o.LeaveTrailingWhitespace \/ c < n
    IN  IF as[c] = Right
        THEN Repeat(<<SP>>, d) \o v
        ELSE IF as[c] = Center
        THEN Repeat(<<SP>>, (d + 1) \div 2) \o v
                 \o (IF trailing THEN Repeat(<<SP>>, d - (d + 1) \div 2) ELSE <<>>)
        ELSE v \o (IF trailing THEN Repeat(<<SP>>, d) ELSE <<>>)

\* What the switch on alignments[c] writes for the cell v of column c (from
\* 1) of a row of n cells.
CellText(v, c, n, o, ws, as) ==
    LET d == ws[c] - RuneCountInString(v)
        trailing == o.LeaveTrailingWhitespace \/ c < n
    IN  IF as[c] = Right
        THEN Repeat(<<SP>>, d) \o v
        ELSE IF as[c] = Center
        THEN Repeat(<<SP>>, d \div 2) \o v
                 \o (IF trailing THEN Repeat(<<SP>>, ws[c] - (d \div 2 + RuneCountInString(v)))
                     ELSE <<>>)
        ELSE v \o (IF trailing THEN Repeat(<<SP>>, d) ELSE <<>>)

\* What a data row writes, with its line break.
DataRowLine(cells, o, ws, as) ==
    o.RowFirstUD
    \o Concat([c \in 1..Len(cells) |->
                  (IF c = 2 THEN o.RowSecondUD ELSE IF c # 1 THEN o.RowUD ELSE <<>>)
                  \o CellText(cells[c], c, Len(cells), o, ws, as)])
    \o o.RowLastUD
    \o <<LF>>

\* The bottom border, with its line break, or nothing.
BottomBorder(o, ws) ==
    IF ~AllEqual(<<o.LastUR, o.LastFirstULR, o.LastULR, o.LastLR, o.LastUL>>)
    THEN BorderLine(o.LastUR, o.LastFirstULR, o.LastULR, o.LastLR, o.LastUL, ws)
             \o <<LF>>
    ELSE <<>>

----------------------------------------------------------------------------
(* State *)

VARIABLES
    \* One call of Wrap
    wpc,        \* where the call is: idle, call, par, word, scan, place, return, done
    text,       \* Wrap's argument text
    width,      \* Wrap's argument width
    indent1,    \* Wrap's argument indent1
    indent2,    \* Wrap's argument indent2
    ttyWidth,   \* what GetTTYWidth returns to this call
    wrapWidth,  \* wrap's parameter width
    pars,       \* the paragraphs the outer loop has not reached yet
    words,      \* the words of the current paragraph the inner loop has not reached yet
    word,       \* the loop variable word
    scan,       \* the local scan
    wordLen,    \* the local wordLen
    lineLen,    \* the local lineLen
    start,      \* the local start
    out,        \* the buffer out
    ret,        \* what Wrap returned
    \* One call of Align
    pc,         \* where the call is: idle, call, expand, top, rows, done, panic, hang
    data,       \* Align's argument data (nil and the empty grid are both <<>>)
    optsArg,    \* Align's argument opts
    opts,       \* opts once a nil opts has been replaced
    inRow,      \* the index in data of the row the first loop reaches next
    newData,    \* the expanded rows
    widths,     \* the column widths
    alignments, \* the column alignments
    buf,        \* the output buffer buf
    firstNil,   \* the local firstNil
    outRow,     \* the index in newData of the row the output loop reaches next
    result,     \* what Align returned
    \* One call of ThousandsSep or ThousandsSepU
    tsPc,       \* where the call is: idle, call, loop, done
    tsUnsigned, \* whether the call is one of ThousandsSepU
    tsV,        \* the argument v
    tsSep,      \* the argument sep
    tsS,        \* the local s, returned in the end
    tsI         \* the loop variable i

wrapVars == <<wpc, text, width, indent1, indent2, ttyWidth, wrapWidth, pars, words,
              word, scan, wordLen, lineLen, start, out, ret>>

alignVars == <<pc, data, optsArg, opts, inRow, newData, widths, alignments, buf,
               firstNil, outRow, result>>

sepVars == <<tsPc, tsUnsigned, tsV, tsSep, tsS, tsI>>

vars == <<wrapVars, alignVars, sepVars>>

----------------------------------------------------------------------------
(* Wrap, step by step *)

\* Wrap up to the first paragraph: the width below 1 made relative to the
\* terminal's, the empty text returned as it is, CRLF made LF and the text
\* split into paragraphs.
WrapCall ==
    /\ wpc = "call"
    /\ wrapWidth' = EffectiveWidth(width, ttyWidth)
    /\ IF ByteLen(text) = 0
       THEN /\ wpc' = "return"
            /\ out' = text
            /\ pars' = <<>>
       ELSE /\ wpc' = "par"
            /\ out' = <<>>
            /\ pars' = Paragraphs(text)
    /\ UNCHANGED <<text, width, indent1, indent2, ttyWidth, words, word, scan,
                   wordLen, lineLen, start, ret>>
    /\ UNCHANGED <<alignVars, sepVars>>

\* The head of the paragraph loop: the next paragraph's line breaks become
\* spaces and it is split into words; after the last one wrap returns.
WrapPar ==
    /\ wpc = "par"
    /\ IF pars = <<>>
       THEN /\ wpc' = "return"
            /\ UNCHANGED <<pars, words, lineLen, start>>
       ELSE /\ wpc' = "word"
            /\ words' = ParWords(Head(pars))
            /\ pars' = Tail(pars)
            /\ lineLen' = 0
            /\ start' = TRUE
    /\ UNCHANGED <<text, width, indent1, indent2, ttyWidth, wrapWidth, word, scan,
                   wordLen, out, ret>>
    /\ UNCHANGED <<alignVars, sepVars>>

\* The head of the word loop: an empty word is skipped, another one is
\* handed to the escape scan; after the last word the paragraph is closed
\* with two line breaks.
WrapWord ==
    /\ wpc = "word"
    /\ IF words = <<>>
       THEN /\ wpc' = "par"
            /\ out' = out \o <<LF, LF>>
            /\ UNCHANGED <<words, word, scan, wordLen>>
       ELSE /\ words' = Tail(words)
            /\ word' = Head(words)
            /\ wordLen' = ByteLen(Head(words))
            /\ IF ByteLen(Head(words)) = 0
               THEN wpc' = "word" /\ UNCHANGED scan
               ELSE wpc' = "scan" /\ scan' = Head(words)
            /\ UNCHANGED out
    /\ UNCHANGED <<text, width, indent1, indent2, ttyWidth, wrapWidth, pars,
                   lineLen, start, ret>>
    /\ UNCHANGED <<alignVars, sepVars>>

\* The escape scan: its test and, when the test holds, one iteration.  An
\* iteration that finds no 'm' after the ESC leaves scan and wordLen as they
\* were, and the loop runs it again and again: the call stays here for good.
WrapScan ==
    /\ wpc = "scan"
    /\ IF ScanContinues(scan)
       THEN /\ scan' = ScanIter(scan, wordLen).scan
            /\ wordLen' = ScanIter(scan, wordLen).wordLen
            /\ wpc' = "scan"
       ELSE /\ wpc' = "place"
            /\ UNCHANGED <<scan, wordLen>>
    /\ UNCHANGED <<text, width, indent1, indent2, ttyWidth, wrapWidth, pars, words,
                   word, lineLen, start, out, ret>>
    /\ UNCHANGED <<alignVars, sepVars>>

\* The word goes to the buffer: first of its paragraph, on a new line, or
\* after a space.
WrapPlace ==
    /\ wpc = "place"
    /\ LET st == PlaceWord([out |-> out, lineLen |-> lineLen, start |-> start],
                           word, wordLen, wrapWidth, indent1, indent2)
       IN  /\ out' = st.out
           /\ lineLen' = st.lineLen
           /\ start' = st.start
    /\ wpc' = "word"
    /\ UNCHANGED <<text, width, indent1, indent2, ttyWidth, wrapWidth, pars, words,
                   word, scan, wordLen, ret>>
    /\ UNCHANGED <<alignVars, sepVars>>

\* wrap returns the buffer and Wrap trims the line breaks off both ends.
WrapReturn ==
    /\ wpc = "return"
    /\ ret' = Trim(out, LF)
    /\ wpc' = "done"
    /\ UNCHANGED <<text, width, indent1, indent2, ttyWidth, wrapWidth, pars, words,
                   word, scan, wordLen, lineLen, start, out>>
    /\ UNCHANGED <<alignVars, sepVars>>

NextWrap == WrapCall \/ WrapPar \/ WrapWord \/ WrapScan \/ WrapPlace \/ WrapReturn

----------------------------------------------------------------------------
(* Align, step by step *)

\* Align up to the first loop: the empty grid returns the empty string, a nil
\* opts becomes the default options.
AlignCall ==
    /\ pc = "call"
    /\ IF Len(data) = 0
       THEN /\ pc' = "done"
            /\ result' = <<>>
            /\ UNCHANGED <<opts, inRow>>
       ELSE /\ pc' = "expand"
            /\ opts' = IF optsArg.isNil THEN NewDefaultAlignOptions ELSE optsArg
            /\ inRow' = 1
            /\ UNCHANGED result
    /\ UNCHANGED <<data, optsArg, newData, widths, alignments, buf, firstNil, outRow>>
    /\ UNCHANGED <<wrapVars, sepVars>>

\* One iteration of the loop over the rows of data that builds newData.
AlignExpand ==
    /\ pc = "expand"
    /\ inRow <= Len(data)
    /\ LET r == ExpandRow(newData, data[inRow], opts, ttyWidth)
       IN  IF r.hang
           THEN pc' = "hang" /\ UNCHANGED <<newData, inRow>>
           ELSE pc' = "expand" /\ newData' = r.newData /\ inRow' = inRow + 1
    /\ UNCHANGED <<data, optsArg, opts, widths, alignments, buf, firstNil, outRow,
                   result>>
    /\ UNCHANGED <<wrapVars, sepVars>>

\* After the loop: widths is made with the capacity len(data[0]), which
\* panics when no row was produced; then the widths and the alignments are
\* computed.
AlignWidths ==
    /\ pc = "expand"
    /\ inRow > Len(data)
    /\ IF Len(newData) = 0
       THEN /\ pc' = "panic"
            /\ UNCHANGED <<widths, alignments>>
       ELSE /\ pc' = "top"
            /\ widths' = ColumnWidths(newData, <<>>)
            /\ alignments' = FillAlignments(opts.Alignments, ColumnWidths(newData, <<>>))
    /\ UNCHANGED <<data, optsArg, opts, inRow, newData, buf, firstNil, outRow, result>>
    /\ UNCHANGED <<wrapVars, sepVars>>

\* The top border.
AlignTop ==
    /\ pc = "top"
    /\ buf' = TopBorder(opts, widths)
    /\ firstNil' = TRUE
    /\ outRow' = 1
    /\ pc' = "rows"
    /\ UNCHANGED <<data, optsArg, opts, inRow, newData, widths, alignments, result>>
    /\ UNCHANGED <<wrapVars, sepVars>>

\* One iteration of the output loop: a separator or a data row.
AlignRow ==
    /\ pc = "rows"
    /\ outRow <= Len(newData)
    /\ IF newData[outRow].nil
       THEN /\ buf' = buf \o NilRowLine(opts, widths, firstNil)
            /\ firstNil' = FALSE
       ELSE /\ buf' = buf \o DataRowLine(newData[outRow].cells, opts, widths, alignments)
            /\ UNCHANGED firstNil
    /\ outRow' = outRow + 1
    /\ UNCHANGED <<pc, data, optsArg, opts, inRow, newData, widths, alignments, result>>
    /\ UNCHANGED <<wrapVars, sepVars>>

\* After the output loop: the bottom border, and Align returns the buffer.
AlignBottom ==
    /\ pc = "rows"
    /\ outRow > Len(newData)
    /\ buf' = buf \o BottomBorder(opts, widths)
    /\ result' = buf \o BottomBorder(opts, widths)
    /\ pc' = "done"
    /\ UNCHANGED <<data, optsArg, opts, inRow, newData, widths, alignments, firstNil,
                   outRow>>
    /\ UNCHANGED <<wrapVars, sepVars>>

NextAlign ==
    AlignCall \/ AlignExpand \/ AlignWidths \/ AlignTop \/ AlignRow \/ AlignBottom

----------------------------------------------------------------------------
(* ThousandsSep and ThousandsSepU, step by step *)

\* ThousandsSep up to its loop: v is formatted and i set three bytes from
\* the end.
ThousandsSepCall ==
    /\ tsPc = "call"
    /\ ~tsUnsigned
    /\ tsS' = FormatInt(tsV)
    /\ tsI' = ByteLen(FormatInt(tsV)) - 3
    /\ tsPc' = "loop"
    /\ UNCHANGED <<tsUnsigned, tsV, tsSep>>
    /\ UNCHANGED <<wrapVars, alignVars>>

\* ThousandsSepU up to its loop.
ThousandsSepUCall ==
    /\ tsPc = "call"
    /\ tsUnsigned
    /\ tsS' = FormatUint(tsV)
    /\ tsI' = ByteLen(FormatUint(tsV)) - 3
    /\ tsPc' = "loop"
    /\ UNCHANGED <<tsUnsigned, tsV, tsSep>>
    /\ UNCHANGED <<wrapVars, alignVars>>

\* One iteration of the loop of either function: a comma goes in at i and i
\* moves three bytes to the left.
ThousandsSepLoop ==
    /\ tsPc = "loop"
    /\ tsI > 0
    /\ tsS' = InsertComma(tsS, tsI)
    /\ tsI' = tsI - 3
    /\ UNCHANGED <<tsPc, tsUnsigned, tsV, tsSep>>
    /\ UNCHANGED <<wrapVars, alignVars>>

\* The loop is over and s is returned.
ThousandsSepReturn ==
    /\ tsPc = "loop"
    /\ tsI <= 0
    /\ tsPc' = "done"
    /\ UNCHANGED <<tsUnsigned, tsV, tsSep, tsS, tsI>>
    /\ UNCHANGED <<wrapVars, alignVars>>

NextThousandsSep ==
    ThousandsSepCall \/ ThousandsSepUCall \/ ThousandsSepLoop \/ ThousandsSepReturn

----------------------------------------------------------------------------
(* Inputs *)

MaxTextLen == 5
MaxWidth == 3
MaxRows == 2
MaxCells == 3
MaxValue == 1100
MaxDigits == 7

\* The sequences of at most n members of alphabet.
StringsUpTo(alphabet, n) == UNION {[1..k -> alphabet] : k \in 0..n}

\* No call of ThousandsSep or ThousandsSepU is under way.
ThousandsSepIdle ==
    /\ tsPc = "idle"
    /\ tsUnsigned = FALSE
    /\ tsV = 0
    /\ tsSep = <<>>
    /\ tsS = <<>>
    /\ tsI = 0

\* No call of Align is under way.
AlignIdle ==
    /\ pc = "idle"
    /\ data = <<>>
    /\ optsArg = NilAlignOptions
    /\ opts = NilAlignOptions
    /\ inRow = 0
    /\ newData = <<>>
    /\ widths = <<>>
    /\ alignments = <<>>
    /\ buf = <<>>
    /\ firstNil = FALSE
    /\ outRow = 0
    /\ result = <<>>

\* No call of Wrap is under way.
WrapIdle ==
    /\ wpc = "idle"
    /\ text = <<>>
    /\ width = 0
    /\ indent1 = <<>>
    /\ indent2 = <<>>
    /\ ttyWidth = 80
    /\ wrapWidth = 0
    /\ pars = <<>>
    /\ words = <<>>
    /\ word = <<>>
    /\ scan = <<>>
    /\ wordLen = 0
    /\ lineLen = 0
    /\ start = FALSE
    /\ out = <<>>
    /\ ret = <<>>

RECURSIVE GridsWithin(_, _, _, _)
\* The grids of at most r rows and n cells in all, the cells taken from
\* cells, with nil rows if nils.
GridsWithin(cells, r, n, nils) ==
    IF r = 0 THEN {<<>>}
    ELSE {<<>>}
         \cup {<<NilRow>> \o g : g \in IF nils THEN GridsWithin(cells, r - 1, n, nils) ELSE {}}
         \cup UNION {{<<Row(cs)>> \o g : g \in GridsWithin(cells, r - 1, n - Len(cs), nils)} :
                        cs \in StringsUpTo(cells, n)}

\* A call of Align with the given arguments, about to run.
AlignCalled(grids, options) ==
    /\ pc = "call"
    /\ data \in grids
    /\ optsArg \in options
    /\ opts = NilAlignOptions
    /\ inRow = 0
    /\ newData = <<>>
    /\ widths = <<>>
    /\ alignments = <<>>
    /\ buf = <<>>
    /\ firstNil = FALSE
    /\ outRow = 0
    /\ result = <<>>
    /\ WrapIdle
    /\ ThousandsSepIdle

\* A call of Wrap with the given arguments, about to run.
WrapCalled(texts, ws, indents1, indents2, ttys) ==
    /\ wpc = "call"
    /\ text \in texts
    /\ width \in ws
    /\ indent1 \in indents1
    /\ indent2 \in indents2
    /\ ttyWidth \in ttys
    /\ wrapWidth = 0
    /\ pars = <<>>
    /\ words = <<>>
    /\ word = <<>>
    /\ scan = <<>>
    /\ wordLen = 0
    /\ lineLen = 0
    /\ start = FALSE
    /\ out = <<>>
    /\ ret = <<>>
    /\ AlignIdle
    /\ ThousandsSepIdle

\* Texts without escape sequences, explicit widths, with and without prefixes.
InitWrap ==
    WrapCalled(StringsUpTo({"a", SP, LF, CR}, MaxTextLen), 1..MaxWidth,
               {<<>>, <<">">>}, {<<>>, <<"+">>}, {80})

SpecWrap == InitWrap /\ [][NextWrap]_vars

\* Texts with ESC and 'm' bytes, explicit widths, no prefixes.
InitWrapANSI ==
    WrapCalled(StringsUpTo({"a", SP, ESC, "m"}, MaxTextLen + 1), 1..MaxWidth,
               {<<>>}, {<<>>}, {80})

SpecWrapANSI == InitWrapANSI /\ [][NextWrap]_vars

\* Texts with ESC and 'm' bytes, explicit widths, no prefixes.
InitWrapESC ==
    WrapCalled(StringsUpTo({"a", SP, ESC, "m"}, MaxTextLen), 1..MaxWidth,
               {<<>>}, {<<>>}, {TTYFallback})

\* The call of Wrap runs on until it returns: the program is sequential and
\* nothing but its own loops keeps it from its next step.
SpecWrapFair == InitWrapESC /\ [][NextWrap]_vars /\ WF_vars(NextWrap)

\* Texts without escape sequences and without prefixes, on terminals of a
\* few columns and on one that cannot be queried, the widths relative to the
\* terminal's and explicit.
InitWrapTTY ==
    WrapCalled(StringsUpTo({"a", SP, LF}, MaxTextLen),
               (-MaxWidth..MaxWidth) \cup {k + 1 - TTYFallback : k \in 1..MaxWidth},
               {<<>>}, {<<>>},
               {GetTTYWidth(FALSE, c) : c \in 2..(MaxWidth + 2)}
                   \cup {GetTTYWidth(TRUE, 0)})

SpecWrapTTY == InitWrapTTY /\ [][NextWrap]_vars

RECURSIVE Pow10(_)
Pow10(n) == IF n = 0 THEN 1 ELSE 10 * Pow10(n - 1)

\* The values up to MaxValue and, beyond, the powers of ten of up to
\* MaxDigits + 1 digits, each with its predecessor and its successor.
SomeUints ==
    (0..MaxValue) \cup UNION {{Pow10(n) - 1, Pow10(n), Pow10(n) + 1} : n \in 1..MaxDigits}

\* A call of ThousandsSep on a value or its negative, or of ThousandsSepU on
\* the value, with a separator of no, one or two codepoints, one of them of
\* two bytes.
InitThousandsSep ==
    /\ tsPc = "call"
    /\ tsUnsigned \in BOOLEAN
    /\ tsV \in IF tsUnsigned THEN SomeUints
                ELSE SomeUints \cup {-u : u \in SomeUints}
    /\ tsSep \in {<<",">>, <<".">>, <<>>, <<"_", EAcute>>}
    /\ tsS = <<>>
    /\ tsI = 0
    /\ WrapIdle
    /\ AlignIdle

SpecThousandsSep == InitThousandsSep /\ [][NextThousandsSep]_vars

\* Grids with multi-byte, multi-line and empty cells, under nil options and
\* under default options with and without a separator between every row and
\* a width limit on the first column.
InitAlign ==
    AlignCalled(GridsWithin({<<EAcute>>, <<"a", LF, "b", "c">>, <<"d", SP, "e", CR, LF>>},
                            MaxRows, MaxCells, TRUE),
                {NilAlignOptions,
                 [NewDefaultAlignOptions EXCEPT !.NilBetweenEveryRow = TRUE],
                 [NewDefaultAlignOptions EXCEPT !.Widths = <<1>>],
                 [NewDefaultAlignOptions EXCEPT !.NilBetweenEveryRow = TRUE,
                                                !.Widths = <<1>>]})

SpecAlign == InitAlign /\ [][NextAlign]_vars

\* Grids of data rows with cells of several lengths, one of them multi-byte,
\* under the default and the simple glyphs, every alignment, with and without
\* trailing whitespace.
InitRender ==
    AlignCalled(GridsWithin({<<"a">>, <<EAcute, "b">>, <<"c", "d", "e", "f">>},
                            MaxRows, MaxCells, FALSE),
                {[base EXCEPT !.LeaveTrailingWhitespace = l, !.Alignments = a] :
                    base \in {NewDefaultAlignOptions, NewSimpleAlignOptions},
                    l \in BOOLEAN,
                    a \in {<<>>, <<Center, Right>>, <<Right, Center, Left>>}})

SpecRender == InitRender /\ [][NextAlign]_vars

\* The default options with the glyphs of the four border sites chosen site
\* by site: "none" leaves the five glyphs of a site empty, "all" sets the
\* five, "one" sets a single one of them.
RuledOptions(top, first, later, bottom) ==
    [NewDefaultAlignOptions EXCEPT
        !.FirstDR = IF top = "all" THEN <<"T[">> ELSE <<>>,
        !.FirstFirstDLR = IF top = "all" THEN <<"T1">> ELSE <<>>,
        !.FirstDLR = IF top = "all" THEN <<"T2">> ELSE <<>>,
        !.FirstLR = IF top # "none" THEN <<"T-">> ELSE <<>>,
        !.FirstDL = IF top = "all" THEN <<"T]">> ELSE <<>>,
        !.FirstNilFirstUDR = IF first = "all" THEN <<"F[">> ELSE <<>>,
        !.FirstNilFirstUDLR = IF first = "all" THEN <<"F1">> ELSE <<>>,
        !.FirstNilUDLR = IF first = "all" THEN <<"F2">> ELSE <<>>,
        !.FirstNilLR = IF first = "all" THEN <<"F-">> ELSE <<>>,
        !.FirstNilLastUDL = IF first # "none" THEN <<"F]">> ELSE <<>>,
        !.NilFirstUDR = IF later = "all" THEN <<"N[">> ELSE <<>>,
        !.NilFirstUDLR = IF later # "none" THEN <<"N1">> ELSE <<>>,
        !.NilUDLR = IF later = "all" THEN <<"N2">> ELSE <<>>,
        !.NilLR = IF later = "all" THEN <<"N-">> ELSE <<>>,
        !.NilLastUDL = IF later = "all" THEN <<"N]">> ELSE <<>>,
        !.LastUR = IF bottom # "none" THEN <<"B[">> ELSE <<>>,
        !.LastFirstULR = IF bottom = "all" THEN <<"B1">> ELSE <<>>,
        !.LastULR = IF bottom = "all" THEN <<"B2">> ELSE <<>>,
        !.LastLR = IF bottom = "all" THEN <<"B-">> ELSE <<>>,
        !.LastUL = IF bottom = "all" THEN <<"B]">> ELSE <<>>]

\* Grids of nil rows and of rows of one-line and two-line cells, one row
\* more than elsewhere, under border sites drawn and not drawn, with and
\* without a separator between every row.
InitSeparators ==
    AlignCalled(GridsWithin({<<"a">>, <<"b", LF, "c">>}, MaxRows + 1, MaxCells, TRUE),
                {[RuledOptions(st[1], st[2], st[3], st[4]) EXCEPT
                     !.NilBetweenEveryRow = n] :
                    st \in {<<"none", "none", "none", "none">>,
                            <<"all", "all", "all", "all">>,
                            <<"all", "none", "all", "none">>,
                            <<"none", "all", "none", "all">>,
                            <<"one", "one", "one", "one">>},
                    n \in BOOLEAN})

SpecSeparators == InitSeparators /\ [][NextAlign]_vars

----------------------------------------------------------------------------
(* The greedy fill Wrap is measured against *)

RECURSIVE RunsAcc(_, _)
RunsAcc(s, cur) ==
    IF s = <<>> THEN (IF cur = <<>> THEN <<>> ELSE <<cur>>)
    ELSE IF Head(s) \in {SP, LF}
         THEN (IF cur = <<>> THEN <<>> ELSE <<cur>>) \o RunsAcc(Tail(s), <<>>)
         ELSE RunsAcc(Tail(s), Append(cur, Head(s)))

\* The maximal runs of codepoints other than space and line break, in order.
Runs(s) == RunsAcc(s, <<>>)

RECURSIVE JoinWith(_, _)
\* The strings ss with sep between every two neighbours.
JoinWith(ss, sep) ==
    IF ss = <<>> THEN <<>>
    ELSE IF Len(ss) = 1 THEN ss[1]
    ELSE ss[1] \o sep \o JoinWith(Tail(ss), sep)

RECURSIVE FillLines(_, _, _, _)
\* The lines of the greedy fill of ws after a line cur has been begun: a word
\* goes on the line, after one space, when the line as written plus one plus
\* the word is within w bytes; otherwise it begins a line after the prefix p.
FillLines(ws, cur, p, w) ==
    IF ws = <<>> THEN <<cur>>
    ELSE IF ByteLen(cur) + 1 + ByteLen(Head(ws)) <= w
         THEN FillLines(Tail(ws), cur \o <<SP>> \o Head(ws), p, w)
         ELSE <<cur>> \o FillLines(Tail(ws), p \o Head(ws), p, w)

\* The greedy fill of the words ws to w bytes, the first line after the
\* prefix p1 and the later ones after p2; nothing for no words.
GreedyFill(ws, p1, p2, w) ==
    IF ws = <<>> THEN <<>>
    ELSE JoinWith(FillLines(Tail(ws), p1 \o Head(ws), p2, w), <<LF>>)

\* The text whose k-th paragraph is the greedy fill of the k-th paragraph's
\* words, its first line after the prefix first[k]; every paragraph is closed
\* by a blank line and the line breaks at both ends are cut.
FilledText(ps, first, p2, w) ==
    Trim(Concat([k \in 1..Len(ps) |->
                    GreedyFill(Runs(ps[k]), first[k], p2, w) \o <<LF, LF>>]), LF)

\* C9: for a text without escape sequences and a width of at least 1, Wrap
\* returns, paragraph by paragraph, the greedy fill of the paragraph's words
\* (lengths in bytes), each paragraph begun after one of the two prefixes and
\* continued after indent2; so no line of the result is longer than the width
\* unless it holds one word, and a one-paragraph text that fits in the width
\* together with either prefix comes back as its words joined by single spaces.
C9_GreedyFill ==
    (wpc = "done" /\ width >= 1 /\ ESC \notin Range(text)) =>
        LET ps == IF text = <<>> THEN <<>> ELSE Paragraphs(text)
        IN  /\ \E first \in [1..Len(ps) -> {indent1, indent2}] :
                   ret = FilledText(ps, first, indent2, width)
            /\ \A k \in 1..Len(Split(ret, <<LF>>)) :
                   LET line == Split(ret, <<LF>>)[k]
                   IN  ByteLen(line) <= width \/ SP \notin Range(line)
            /\ (/\ Len(ps) = 1
                /\ Runs(ps[1]) # <<>>
                /\ ByteLen(indent1) + ByteLen(text) <= width
                /\ ByteLen(indent2) + ByteLen(text) <= width)
               => \E p \in {indent1, indent2} : ret = p \o JoinWith(Runs(ps[1]), <<SP>>)

\* Three words on two lines: the second word fitted the first line, the third
\* did not.
C9_Witness ==
    /\ wpc = "done"
    /\ width >= 1
    /\ ESC \notin Range(text)
    /\ Len(Runs(text)) > 2
    /\ Len(Split(ret, <<LF>>)) = 2
    /\ SP \in Range(ret)

----------------------------------------------------------------------------
(* Escape sequences *)

\* The length in codepoints of the escape sequence s begins with: ESC, then
\* codepoints other than space and line break, then the first 'm'; 0 when s
\* begins with no escape sequence.
EscapeLen(s) ==
    IF s # <<>> /\ Head(s) = ESC
          /\ \E k \in 2..Len(s) :
                 s[k] = "m" /\ \A l \in 2..(k - 1) : s[l] \notin {"m", SP, LF}
    THEN CHOOSE k \in 2..Len(s) :
             s[k] = "m" /\ \A l \in 2..(k - 1) : s[l] \notin {"m", SP, LF}
    ELSE 0

RECURSIVE StripEscapes(_)
\* s with every escape sequence removed.
StripEscapes(s) ==
    IF s = <<>> THEN <<>>
    ELSE IF EscapeLen(s) > 0
         THEN StripEscapes(SubSeq(s, EscapeLen(s) + 1, Len(s)))
         ELSE <<Head(s)>> \o StripEscapes(Tail(s))

RECURSIVE EscapesOf(_)
\* The escape sequences of s, in order.
EscapesOf(s) ==
    IF s = <<>> THEN <<>>
    ELSE IF EscapeLen(s) > 0
         THEN <<SubSeq(s, 1, EscapeLen(s))>>
                  \o EscapesOf(SubSeq(s, EscapeLen(s) + 1, Len(s)))
         ELSE EscapesOf(Tail(s))

\* The visible words of each line of s that holds one, line by line.
VisibleLines(s) ==
    SelectSeq([k \in 1..Len(Split(s, <<LF>>)) |->
                  Runs(StripEscapes(Split(s, <<LF>>)[k]))],
              LAMBDA ws : ws # <<>>)

\* C10: for a text whose ESC bytes all begin an escape sequence, the lines
\* Wrap returns hold the same visible words as the lines it returns for the
\* text with every escape sequence removed, and the escape sequences of the
\* text are those of the result, in order.
C10_EscapesCountZero ==
    (wpc = "done" /\ ESC \notin Range(StripEscapes(text))) =>
        LET plain == Wrap(StripEscapes(text), width, indent1, indent2, ttyWidth)
        IN  /\ VisibleLines(ret) = VisibleLines(plain.out)
            /\ EscapesOf(ret) = EscapesOf(text)

----------------------------------------------------------------------------
(* Align: what is being called, and whether it fails *)

\* The options Align works with: the default ones for a nil opts.
GivenOptions == IF optsArg.isNil THEN NewDefaultAlignOptions ELSE optsArg

\* C1: Align never fails: it does not panic and does not hang, and for the
\* empty grid it returns the empty string.
C1_AlignNeverFails ==
    /\ pc \notin {"panic", "hang"}
    /\ (pc = "done" /\ data = <<>>) => result = <<>>

----------------------------------------------------------------------------
(* Align: column widths *)

\* The cells of column c (from 1) of the rows rs.
ColumnCells(rs, c) ==
    {rs[k].cells[c] : k \in {k \in 1..Len(rs) : ~rs[k].nil /\ Len(rs[k].cells) >= c}}

\* The number of columns of the rows rs.
ColumnCount(rs) ==
    MaxOf({Len(rs[k].cells) : k \in {k \in 1..Len(rs) : ~rs[k].nil}})

\* C2: once the widths are computed there is one per column of the expanded
\* grid, and the width of a column is the largest codepoint count of its
\* cells.
C2_WidthIsMaxRuneCount ==
    pc \in {"top", "rows"} =>
        /\ Len(widths) = ColumnCount(newData)
        /\ \A c \in 1..Len(widths) :
               widths[c] = MaxOf({RuneCountInString(v) : v \in ColumnCells(newData, c)})

----------------------------------------------------------------------------
(* Align: multi-line expansion *)

\* The positions of the line breaks of the string v, in order.
BreaksOf(v) == SelectSeq([k \in 1..Len(v) |-> k], LAMBDA k : v[k] = LF)

\* The number of lines of v.
LineCount(v) == Len(BreaksOf(v)) + 1

\* The j-th line of v: what lies between the line breaks j - 1 and j, less a
\* CR that the line break j follows.
LineOf(v, j) ==
    LET from == IF j = 1 THEN 1 ELSE BreaksOf(v)[j - 1] + 1
        to == IF j = LineCount(v) THEN Len(v) ELSE BreaksOf(v)[j] - 1
        cut == IF j < LineCount(v) /\ to >= from /\ v[to] = CR THEN to - 1 ELSE to
    IN  SubSeq(v, from, cut)

\* The physical rows of a row of cells: as many as the cell with the most
\* lines has lines, row j holding the j-th line of every cell, or the empty
\* string.
PhysicalRows(cells) ==
    [j \in 1..MaxOf({LineCount(cells[i]) : i \in 1..Len(cells)}) |->
        Row([i \in 1..Len(cells) |->
                IF j <= LineCount(cells[i]) THEN LineOf(cells[i], j) ELSE <<>>])]

\* The input rows the first loop is done with.
RowsDone == SubSeq(data, 1, inRow - 1)

\* C3: the expanded rows are, input row by input row and in order, the
\* physical rows of the row's cells (as rewrapped, where a width limit
\* applies); a nil row stays one nil row when NilBetweenEveryRow is off, and
\* with it on the rows other than separators are these same rows.
C3_MultiLineExpansion ==
    pc \in {"expand", "top", "rows"} =>
        LET o == opts
            expected ==
                Concat([k \in 1..Len(RowsDone) |->
                    IF RowsDone[k].nil
                    THEN (IF o.NilBetweenEveryRow THEN <<>> ELSE <<NilRow>>)
                    ELSE PhysicalRows(WrapCells(RowsDone[k].cells, o.Widths, ttyWidth).cells)])
        IN  IF o.NilBetweenEveryRow
            THEN SelectSeq(newData, LAMBDA r : ~r.nil) = expected
            ELSE newData = expected

\* A nil row and a row of two cells with different numbers of lines, one of
\* them with a CRLF, have been expanded, NilBetweenEveryRow off.
C3_Witness ==
    /\ pc = "top"
    /\ ~opts.NilBetweenEveryRow
    /\ opts.Widths = <<>>
    /\ \E k \in 1..Len(data) : data[k].nil
    /\ \E k \in 1..Len(data) :
           /\ ~data[k].nil
           /\ Len(data[k].cells) = 2
           /\ LineCount(data[k].cells[1]) # LineCount(data[k].cells[2])
           /\ CR \in Range(data[k].cells[1])

----------------------------------------------------------------------------
(* Align: the lines of the output *)

\* The lines written to buf so far, each without its line break.
LinesOf(b) == IF b = <<>> THEN <<>> ELSE Split(SubSeq(b, 1, Len(b) - 1), <<LF>>)

\* The five glyphs of a border site are not all empty.
Drawn(gs) == \E k \in 1..Len(gs) : gs[k] # <<>>

TopGlyphs(o) == <<o.FirstDR, o.FirstFirstDLR, o.FirstDLR, o.FirstLR, o.FirstDL>>
FirstNilGlyphs(o) ==
    <<o.FirstNilFirstUDR, o.FirstNilFirstUDLR, o.FirstNilUDLR, o.FirstNilLR,
      o.FirstNilLastUDL>>
NilGlyphs(o) == <<o.NilFirstUDR, o.NilFirstUDLR, o.NilUDLR, o.NilLR, o.NilLastUDL>>
BottomGlyphs(o) == <<o.LastUR, o.LastFirstULR, o.LastULR, o.LastLR, o.LastUL>>

\* The rows of newData the output loop is done with.
RowsOut == 1..(outRow - 1)

\* The line of buf written for the row k of newData, if every row before it
\* wrote one line: it follows the top border's, if there is one.
LineOfRow(k) == LinesOf(buf)[k + (IF Drawn(TopGlyphs(opts)) THEN 1 ELSE 0)]

----------------------------------------------------------------------------
(* Align: the cells of a data row *)

\* The alignment of column c: the one given, Left where none is.
AlignmentOf(c) == IF c <= Len(opts.Alignments) THEN opts.Alignments[c] ELSE Left

\* The spaces before and after the cell v of column c: all after for Left,
\* all before for Right, half (rounded down) before and the rest after for
\* Center.
PadBefore(v, c) ==
    LET d == widths[c] - Len(v)
    IN  IF AlignmentOf(c) = Right THEN d
        ELSE IF AlignmentOf(c) = Center THEN d \div 2
        ELSE 0

PadAfter(v, c) ==
    LET d == widths[c] - Len(v)
    IN  IF AlignmentOf(c) = Right THEN 0
        ELSE IF AlignmentOf(c) = Center THEN d - d \div 2
        ELSE d

\* The line of a data row of the cells cs: every cell after its connector
\* and between its spaces, the spaces after the last cell left out unless
\* LeaveTrailingWhitespace.
PaddedRow(cs) ==
    opts.RowFirstUD
    \o Concat([c \in 1..Len(cs) |->
          (IF c = 1 THEN <<>> ELSE IF c = 2 THEN opts.RowSecondUD ELSE opts.RowUD)
          \o [k \in 1..PadBefore(cs[c], c) |-> SP]
          \o cs[c]
          \o (IF c = Len(cs) /\ ~opts.LeaveTrailingWhitespace
              THEN <<>>
              ELSE [k \in 1..PadAfter(cs[c], c) |-> SP])])
    \o opts.RowLastUD

\* C4: with LeaveTrailingWhitespace set, the line of a data row is the line
\* of the row filled up with empty cells to the number of columns: it has the
\* connectors and the padding of every column.
C4_ShortRowsFilledUp ==
    (pc \in {"rows", "done"} /\ opts.LeaveTrailingWhitespace) =>
        \A k \in RowsOut :
            ~newData[k].nil =>
                LineOfRow(k) =
                    PaddedRow(newData[k].cells
                              \o [c \in 1..(Len(widths) - Len(newData[k].cells)) |-> <<>>])

\* C5: the line of a data row holds each of its cells padded to the width of
\* its column by its alignment, the padding after the row's last cell left
\* out when LeaveTrailingWhitespace is off.
C5_CellPadding ==
    pc \in {"rows", "done"} =>
        \A k \in RowsOut :
            ~newData[k].nil => LineOfRow(k) = PaddedRow(newData[k].cells)

\* A row has been written with a centred cell that is not its last and
\* needs an odd number of spaces, followed by a last cell narrower than its
\* column, LeaveTrailingWhitespace off.
C5_Witness ==
    /\ pc = "done"
    /\ ~opts.LeaveTrailingWhitespace
    /\ \E k \in 1..Len(newData) :
           /\ ~newData[k].nil
           /\ Len(newData[k].cells) = 2
           /\ AlignmentOf(1) = Center
           /\ (widths[1] - Len(newData[k].cells[1])) % 2 = 1
           /\ AlignmentOf(2) = Right
           /\ widths[2] > Len(newData[k].cells[2])

----------------------------------------------------------------------------
(* Align: separators *)

\* The physical rows of the input rows that have any, input row by input
\* row.
DataBlocks ==
    SelectSeq([k \in 1..Len(data) |->
                  IF data[k].nil THEN <<>>
                  ELSE PhysicalRows(WrapCells(data[k].cells, opts.Widths, ttyWidth).cells)],
              LAMBDA rs : rs # <<>>)

\* C6: with NilBetweenEveryRow the rows to render are the physical rows of
\* the data rows with one separator between the rows of one data row and the
\* rows of the next: none first, none last, never two in a row, none within
\* one input row, whatever nil rows the caller gave.
C6_OneSeparatorBetweenRows ==
    (pc \in {"top", "rows", "done"} /\ data # <<>> /\ opts.NilBetweenEveryRow) =>
        newData = JoinWith(DataBlocks, <<NilRow>>)

\* The line of a border site with the glyphs gs (left, first junction, other
\* junction, fill, right): nothing when the five are empty.
SiteLine(gs) ==
    IF ~Drawn(gs) THEN <<>>
    ELSE gs[1]
         \o Concat([c \in 1..Len(widths) |->
                (IF c = 1 THEN <<>> ELSE IF c = 2 THEN gs[2] ELSE gs[3])
                \o Concat([i \in 1..widths[c] |-> gs[4]])])
         \o gs[5]

\* The nil rows of newData before row k.
NilsBefore(k) == {j \in 1..(k - 1) : newData[j].nil}

\* C7: the line of the first nil row is the line of the FirstNil glyphs, be
\* they empty or not, and the line of every later nil row is the line of the
\* Nil glyphs.
C7_FirstSeparatorOnce ==
    pc \in {"rows", "done"} =>
        \A k \in RowsOut :
            newData[k].nil =>
                LineOfRow(k) = IF NilsBefore(k) = {}
                               THEN SiteLine(FirstNilGlyphs(opts))
                               ELSE SiteLine(NilGlyphs(opts))

\* Two or more separators have been written over two or more columns, the
\* FirstNil glyphs empty and the Nil glyphs not.
C7_Witness ==
    /\ pc = "done"
    /\ Cardinality({k \in 1..Len(newData) : newData[k].nil}) >= 2
    /\ Len(widths) >= 2
    /\ ~Drawn(FirstNilGlyphs(opts))
    /\ Drawn(NilGlyphs(opts))

\* The number of line breaks of the string b.
LineBreaks(b) == Cardinality({k \in 1..Len(b) : b[k] = LF})

\* The nil rows of newData that have a line: the first if the FirstNil glyphs
\* are drawn, the later ones if the Nil glyphs are.
DrawnNils ==
    {k \in 1..Len(newData) :
        /\ newData[k].nil
        /\ IF NilsBefore(k) = {} THEN Drawn(FirstNilGlyphs(opts))
           ELSE Drawn(NilGlyphs(opts))}

\* C8: what Align returns has one line, with its line break, for the top
\* border if drawn, for every data row, for every separator whose glyphs are
\* drawn and for the bottom border if drawn, and no other line or line
\* break; the top border is the first line and the bottom border the last.
C8_EmptyBorderSuppressed ==
    (pc = "done" /\ data # <<>>) =>
        /\ LineBreaks(result) =
               (IF Drawn(TopGlyphs(opts)) THEN 1 ELSE 0)
               + Cardinality({k \in 1..Len(newData) : ~newData[k].nil})
               + Cardinality(DrawnNils)
               + (IF Drawn(BottomGlyphs(opts)) THEN 1 ELSE 0)
        /\ Drawn(TopGlyphs(opts)) => LinesOf(result)[1] = SiteLine(TopGlyphs(opts))
        /\ Drawn(BottomGlyphs(opts)) =>
               LinesOf(result)[Len(LinesOf(result))] = SiteLine(BottomGlyphs(opts))

----------------------------------------------------------------------------
(* The two prefixes *)

\* The prefix the k-th paragraph of ps begins with when indent1 is written
\* once, before the first word of the whole text.
PrefixOnce(ps) ==
    [k \in 1..Len(ps) |->
        IF \A j \in 1..(k - 1) : Runs(ps[j]) = <<>> THEN indent1 ELSE indent2]

\* C11: for a text without escape sequences and a width of at least 1, Wrap
\* returns nothing for the empty text and otherwise the greedy fill in which
\* indent1 is written once, before the first word of the whole text, every
\* other line that holds words, the first line of a later paragraph included,
\* begins with indent2, and a prefix counts toward the length of its line.
C11_FirstPrefixOnce ==
    (wpc = "done" /\ width >= 1 /\ ESC \notin Range(text)) =>
        IF text = <<>>
        THEN ret = <<>>
        ELSE ret = FilledText(Paragraphs(text), PrefixOnce(Paragraphs(text)),
                              indent2, width)

----------------------------------------------------------------------------
(* The width relative to the terminal's *)

\* The greedy fill of the text to w bytes, without prefixes.
FilledTo(w) ==
    IF text = <<>> THEN <<>>
    ELSE FilledText(Paragraphs(text), [k \in 1..Len(Paragraphs(text)) |-> <<>>],
                    <<>>, w)

\* C12 as stated: a width of 0 or less wraps at the terminal's width plus
\* the width, a positive width at the width itself.
C12_WidthPlusTerminal ==
    (wpc = "done" /\ indent1 = <<>> /\ indent2 = <<>>) =>
        ret = FilledTo(IF width <= 0 THEN ttyWidth + width ELSE width)

\* C12: a width of 0 or less wraps at the terminal's width minus one plus the
\* width, the terminal's width being 80 when it cannot be queried, so at 79
\* plus the width then; a positive width wraps at the width itself.
C12_WidthBelowTerminal ==
    (wpc \in {"par", "word", "scan", "place", "return", "done"}) =>
        /\ wrapWidth = IF width <= 0 THEN ttyWidth - 1 + width ELSE width
        /\ (wpc = "done" /\ indent1 = <<>> /\ indent2 = <<>>) =>
               ret = FilledTo(IF width <= 0 THEN ttyWidth - 1 + width ELSE width)

\* A width below 0 on a terminal that cannot be queried: the text would have
\* fitted the terminal's width plus the width and was wrapped one column
\* earlier.
C12_Witness ==
    /\ wpc = "done"
    /\ width < 0
    /\ ttyWidth = TTYFallback
    /\ ByteLen(text) = ttyWidth + width
    /\ Len(Runs(text)) = 2
    /\ LF \in Range(ret)

----------------------------------------------------------------------------
(* Thousands separators *)

RECURSIVE GroupsOfThree(_, _)
\* The digits ds with sep between the groups of three counted from the right.
GroupsOfThree(ds, sep) ==
    IF Len(ds) <= 3 THEN ds
    ELSE GroupsOfThree(SubSeq(ds, 1, Len(ds) - 3), sep)
             \o sep \o SubSeq(ds, Len(ds) - 2, Len(ds))

\* The absolute value of n.
Abs(n) == IF n < 0 THEN -n ELSE n

\* C13: ThousandsSep and ThousandsSepU return the decimal digits of v with
\* the separator given between the groups of three digits counted from the
\* right and nowhere else, after a minus sign when v is negative.
C13_SeparatorGiven ==
    tsPc = "done" =>
        tsS = (IF tsV < 0 THEN <<"-">> ELSE <<>>)
                  \o GroupsOfThree(FormatUint(Abs(tsV)), tsSep)

----------------------------------------------------------------------------
(* Termination *)

\* C14: every call of Wrap returns in the end, whatever ESC bytes the words
\* of the text hold: with an 'm' after them or without, several in a word, or
\* as the last byte.
C14_WrapTerminates == <>(wpc = "done")

====
